---- MODULE Spec2Model ----
(***************************************************************************)
(* hgrep: the concurrent orchestration of src/ripgrep.rs (walk, per-file   *)
(* search with the shared --max-count budget, aggregation, printing, the   *)
(* try_reduce fold of the per-file results) and the stdin paths and exit   *)
(* status of src/main.rs (Spec); the option handling of app() in           *)
(* src/main.rs (SpecApp); the setters of ripgrep::Config and the choice of *)
(* the regex engine (SpecConfig); the aggregation of matches into chunks   *)
(* (SpecChunks).                                                           *)
(***************************************************************************)
EXTENDS Integers, Sequences, FiniteSets

\* ---------------------------------------------------------------- bounds
NumPaths   == 2   \* entries handed to the walker / items read from stdin
MaxMatches == 2   \* matches in one file
MaxCount   == 2   \* largest --max-count value
MaxLines   == 2   \* lines covered by one multi-line match
MaxContext == 1   \* largest --min-context / --max-context value
WidthSlack == 1   \* --term-width values lie this far around the limit
FileLines  == 8   \* lines of the file whose matches are aggregated
MaxEvents  == 3   \* match events of one aggregated file
MaxCalls   == 3   \* setter calls on one Config

\* Option<u64>::None of Config.max_count and Ripgrep.count
None == -1

VARIABLES
    entries,      \* the file system / stdin stream seen by this run (fixed)
    max_count,    \* Config.max_count
    multiline,    \* Config.multiline
    pattern_ok,   \* whether the matcher can be built from PATTERN
    printer_ok,   \* whether the printer can be constructed
    mode,         \* "grep" | "stdin_syntect" | "stdin_bat"
    mainpc,       \* position of the main thread
    visited,      \* entries the walker has visited
    rx,           \* messages sent to the channel of walk()
    quit,         \* the walker was told WalkState::Quit
    paths,        \* the Vec<PathBuf> handed to Ripgrep::grep
    count,        \* Ripgrep.count, the shared Mutex<u64>
    full,         \* try_reduce's short-circuit flag
    upc,          \* position of each file unit
    acc,          \* matches each unit's sink has accepted
    buf,          \* Matches.buf of each unit (line numbers)
    ures,         \* the Result<bool> each unit returned
    printed,      \* the Files the printer has received, in order
    result,       \* what grep / app returned
    status,       \* process exit status
    cli,          \* the parsed command line and environment of app()
    app,          \* the locals of app(): position, printer_opts, effects
    chunker,      \* the aggregation of one file's match events into chunks
    config,       \* a ripgrep::Config under construction
    calls,        \* the setters called on it, in order
    matcher       \* the matcher grep builds from it

vars == <<entries, max_count, multiline, pattern_ok, printer_ok, mode, mainpc, visited, rx,
          quit, paths, count, full, upc, acc, buf, ures, printed, result, status,
          cli, app, chunker, config, calls, matcher>>

\* what the search does not change: its inputs, and the state of the option
\* handling that ran before it
world == <<entries, max_count, multiline, pattern_ok, printer_ok, mode, cli, app,
           chunker, config, calls, matcher>>
walkv == <<visited, rx, quit>>

Ids == 1..NumPaths

\* ---------------------------------------------------------------- values
NoErr == [kind |-> "none", id |-> 0]
Error(k, i) == [kind |-> k, id |-> i]

NoResult == [tag |-> "none", found |-> FALSE, err |-> NoErr]
Ok(b) == [tag |-> "ok", found |-> b, err |-> NoErr]
Err(e) == [tag |-> "err", found |-> FALSE, err |-> e]

Min(a, b) == IF a <= b THEN a ELSE b

RECURSIVE SumTo(_, _)
SumTo(f, n) == IF n = 0 THEN 0 ELSE f[n] + SumTo(f, n - 1)

\* ---------------------------------------------------------------- inputs
\* A match as the searcher reports it: its first line and the lines it covers.
Mat(l, k) == [line |-> l, nlines |-> k]

\* n single-line matches on lines 2, 4, ...
SingleLine(n) == [j \in 1..n |-> Mat(2 * j, 1)]

RECURSIVE StartOf(_, _)
StartOf(ks, j) == IF j = 1 THEN 2 ELSE StartOf(ks, j - 1) + ks[j - 1] + 1

\* multi-line matches with the given spans, one blank line apart
MultiLine(ks) == [j \in 1..Len(ks) |-> Mat(StartOf(ks, j), ks[j])]

Entry(k, ms, f) == [kind |-> k, matches |-> ms, fail |-> f]

\* What one walked entry can be when lines match one at a time: a directory,
\* an entry the walker reports as an error, a file that cannot be opened, a
\* file with n matches, and a file with n >= 1 matches whose search,
\* aggregation or printing fails.
GrepKinds ==
    <<Entry("dir", <<>>, "none"), Entry("werr", <<>>, "none"),
      Entry("file", <<>>, "open")>>
    \o [n \in 1..(MaxMatches + 1) |-> Entry("file", SingleLine(n - 1), "none")]
    \o [n \in 1..MaxMatches |-> Entry("file", SingleLine(n), "search")]
    \o [n \in 1..MaxMatches |-> Entry("file", SingleLine(n), "agg")]
    \o [n \in 1..MaxMatches |-> Entry("file", SingleLine(n), "print")]

\* Files of a multiline search: n matches of k lines each, and a file whose
\* second match starts on the last line of its first.
MultilineKinds ==
    <<Entry("file", <<>>, "none"),
      Entry("file", <<Mat(2, MaxLines), Mat(MaxLines + 1, MaxLines)>>, "none")>>
    \o [c \in 1..(MaxMatches * MaxLines) |->
            Entry("file",
                  MultiLine([j \in 1..(((c - 1) \div MaxLines) + 1) |->
                                 ((c - 1) % MaxLines) + 1]),
                  "none")]

\* an item of chunks_per_file over stdin: a File or an error
StdinEntries == {Entry("file", SingleLine(1), f) : f \in {"none", "agg", "print"}}

Budgets == {None} \cup 0..MaxCount

\* The walker delivers the paths in no particular order, so the entries of a
\* search are a multiset: they are listed in the order of their kinds.
Sorted(kinds) ==
    {[i \in Ids |-> kinds[c[i]]] :
        c \in {d \in [Ids -> 1..Len(kinds)] :
                  \A i \in Ids, j \in Ids : i < j => d[i] <= d[j]}}

GrepWorlds ==
    [entries : Sorted(GrepKinds), max_count : Budgets, multiline : {FALSE},
     pattern_ok : BOOLEAN, printer_ok : BOOLEAN, mode : {"grep"}]

MultilineWorlds ==
    [entries : Sorted(MultilineKinds), max_count : Budgets, multiline : {TRUE},
     pattern_ok : {TRUE}, printer_ok : {TRUE}, mode : {"grep"}]

\* stdin is a stream: its items come in their order; BatPrinter::new cannot
\* fail
StdinWorlds ==
    {w \in [entries : UNION {[1..n -> StdinEntries] : n \in 0..NumPaths},
            max_count : {None}, multiline : {FALSE}, pattern_ok : {TRUE},
            printer_ok : BOOLEAN, mode : {"stdin_syntect", "stdin_bat"}] :
        w.mode = "stdin_bat" => w.printer_ok}

Worlds == GrepWorlds \cup MultilineWorlds \cup StdinWorlds

\* ---------------------------------------------------------------- helpers
IsFile(e) == e \in DOMAIN entries /\ entries[e].kind = "file"

Matches(i) == entries[i].matches

MatchLinesFirst(m, ml) == <<m.line>>

\* the line numbers, in order, of the events one accepted match pushes
\* (ripgrep.rs 389-398)
MatchLines(m, ml) ==
    IF ml THEN [j \in 1..m.nlines |-> m.line + (j - 1)] ELSE <<m.line>>

BudgetExhaustedNever(c) == FALSE

\* `*c == 0` under the lock (ripgrep.rs 384 and 438)
BudgetExhausted(c) == c # None /\ c = 0

DecrementLost(c) == c

\* `*c -= 1` (ripgrep.rs 387)
Decrement(c) == IF c = None THEN None ELSE c - 1

FilesAlways(path, lines) == <<[path |-> path, lines |-> lines]>>

\* Files::new over the matches of one path: no File without a match, else one
Files(path, lines) ==
    IF lines = <<>> THEN <<>> ELSE <<[path |-> path, lines |-> lines]>>

PushOver(out, files) == files

PushTwice(out, files) == out \o files \o files

\* The printer keeps what it is handed, in order (DummyPrinter::print,
\* ripgrep.rs 488-491).
Push(out, files) == out \o files

Running == {i \in paths : upc[i] \notin {"idle", "done"}}

\* the bat path of stdin mode is a plain loop; the rayon pool of the other
\* paths has a thread for every unit
WorkerLimit == IF mode = "stdin_bat" THEN 1 ELSE NumPaths

Failed == {i \in paths : ures[i].tag = "err"}

AnyFoundAll(rs, done) == \A i \in done : rs[i].found

\* `|a, b| Ok(a || b)` folded from `|| false` over the units that ran
AnyFound(rs, done) == \E i \in done : rs[i].found

\* ---------------------------------------------------------------- options
\* `if width < 10` (main.rs 409)
MinTermWidth == 10

\* ripgrep::Config, the fields the option handling and the matcher read
\* (ripgrep.rs 23-46, #[derive(Default)])
DefaultConfig ==
    [min_context |-> 0, max_context |-> 0, case_insensitive |-> FALSE,
     smart_case |-> FALSE, fixed_strings |-> FALSE, word_regexp |-> FALSE,
     line_regexp |-> FALSE, pcre2 |-> FALSE]

\* Config::min_context (ripgrep.rs 55-58)
min_context(c, num) == [c EXCEPT !.min_context = num]

\* Config::max_context (ripgrep.rs 60-63)
max_context(c, num) == [c EXCEPT !.max_context = num]

case_insensitive_only(c, yes) == [c EXCEPT !.case_insensitive = yes]

\* Config::case_insensitive (ripgrep.rs 75-81)
case_insensitive(c, yes) ==
    IF yes
    THEN [c EXCEPT !.case_insensitive = yes, !.smart_case = FALSE]
    ELSE [c EXCEPT !.case_insensitive = yes]

\* Config::smart_case (ripgrep.rs 83-89)
smart_case(c, yes) ==
    IF yes
    THEN [c EXCEPT !.smart_case = yes, !.case_insensitive = FALSE]
    ELSE [c EXCEPT !.smart_case = yes]

fixed_strings_only(c, yes) == [c EXCEPT !.fixed_strings = yes]

\* Config::fixed_strings (ripgrep.rs 101-107)
fixed_strings(c, yes) ==
    IF yes
    THEN [c EXCEPT !.fixed_strings = yes, !.pcre2 = FALSE]
    ELSE [c EXCEPT !.fixed_strings = yes]

\* Config::word_regexp (ripgrep.rs 109-115)
word_regexp(c, yes) ==
    IF yes
    THEN [c EXCEPT !.word_regexp = yes, !.line_regexp = FALSE]
    ELSE [c EXCEPT !.word_regexp = yes]

\* Config::line_regexp (ripgrep.rs 117-123)
line_regexp(c, yes) ==
    IF yes
    THEN [c EXCEPT !.line_regexp = yes, !.word_regexp = FALSE]
    ELSE [c EXCEPT !.line_regexp = yes]

\* Config::pcre2 (ripgrep.rs 165-168)
pcre2(c, yes) == [c EXCEPT !.pcre2 = yes]

\* no matcher has been built
NoMatcher ==
    [engine |-> "none", escaped |-> FALSE, caseless |-> FALSE,
     case_smart |-> FALSE, word |-> FALSE, line |-> FALSE]

\* Config::build_regex_matcher (ripgrep.rs 217-248): the pattern goes through
\* regex::escape when fixed_strings is set
build_regex_matcher(c) ==
    [engine |-> "regex", escaped |-> c.fixed_strings,
     caseless |-> c.case_insensitive, case_smart |-> c.smart_case,
     word |-> c.word_regexp, line |-> c.line_regexp]

\* Config::build_pcre2_matcher (ripgrep.rs 250-275): fixed_strings is not read
build_pcre2_matcher(c) ==
    [engine |-> "pcre2", escaped |-> FALSE,
     caseless |-> c.case_insensitive, case_smart |-> c.smart_case,
     word |-> c.word_regexp, line |-> c.line_regexp]

\* `if config.pcre2 { with_pcre2 } else { with_regex }` (ripgrep.rs 335-339)
MatcherOf(c) ==
    IF c.pcre2 THEN build_pcre2_matcher(c) ELSE build_regex_matcher(c)

\* the flags of the command line that become Config fields
FlagNames ==
    {"ignore-case", "smart-case", "pcre2", "fixed-strings", "word-regexp",
     "line-regexp"}

NoFlags == [f \in FlagNames |-> FALSE]

\* values of the BAT_STYLE environment variable
BatStyles == {"unset", "plain", "header", "numbers", "full"}

TermWidths == {None} \cup (MinTermWidth - WidthSlack)..(MinTermWidth + WidthSlack)

\* A command line clap accepts: no option of cli() requires or excludes
\* another, PATTERN and PATH are optional (main.rs 22-318).
Clis ==
    [completion : BOOLEAN, printer : {"syntect", "bat", "other"},
     min_context : 0..MaxContext, max_context : 0..MaxContext,
     grid : BOOLEAN, no_grid : BOOLEAN, bat_style : BatStyles,
     term_width : TermWidths, background : BOOLEAN, ascii_lines : BOOLEAN,
     custom_assets : BOOLEAN, list_themes : BOOLEAN, pattern : BOOLEAN,
     type_list : BOOLEAN]

\* `hgrep PATTERN`
DefaultCli ==
    [completion |-> FALSE, printer |-> "syntect", min_context |-> 0,
     max_context |-> 0, grid |-> FALSE, no_grid |-> FALSE,
     bat_style |-> "unset", term_width |-> None, background |-> FALSE,
     ascii_lines |-> FALSE, custom_assets |-> FALSE, list_themes |-> FALSE,
     pattern |-> TRUE, type_list |-> FALSE]

\* PrinterOptions::default().grid: the grid is on unless an option turns it
\* off
DefaultGrid == TRUE

\* app() on entry: nothing has been parsed, written or read
StartApp ==
    [pc |-> "start", printer_kind |-> "none", min_context |-> None,
     max_context |-> None, grid |-> DefaultGrid, term_width |-> None,
     background_color |-> FALSE, ascii_lines |-> FALSE,
     custom_assets |-> FALSE, flags |-> NoFlags, config |-> DefaultConfig,
     chunked |-> <<>>, effects |-> {}, ret |-> NoResult]

\* the aggregator before any match event: no open chunk, none closed
StartChunker(ms, min, max) ==
    [matches |-> ms, min |-> min, max |-> max, next |-> 1, open |-> FALSE,
     cur |-> [start |-> 0, end |-> 0, matched |-> <<>>], out |-> <<>>,
     owner |-> <<>>, done |-> FALSE]

\* ---------------------------------------------------------------- Init
Init ==
    \E w \in Worlds :
        /\ entries = w.entries
        /\ max_count = w.max_count
        /\ multiline = w.multiline
        /\ pattern_ok = w.pattern_ok
        /\ printer_ok = w.printer_ok
        /\ mode = w.mode
        /\ mainpc = "printer"
        /\ visited = {}
        /\ rx = {}
        /\ quit = FALSE
        /\ paths = IF w.mode = "grep" THEN {} ELSE DOMAIN w.entries
        /\ count = None
        /\ full = FALSE
        /\ upc = [i \in Ids |-> "idle"]
        /\ acc = [i \in Ids |-> 0]
        /\ buf = [i \in Ids |-> <<>>]
        /\ ures = [i \in Ids |-> NoResult]
        /\ printed = <<>>
        /\ result = NoResult
        /\ status = None
        /\ cli = DefaultCli
        /\ app = [StartApp EXCEPT !.pc = "search"]
        /\ chunker = StartChunker(<<>>, 0, 0)
        /\ config = DefaultConfig
        /\ calls = <<>>
        /\ matcher = NoMatcher

\* ---------------------------------------------------------------- app
\* SyntectPrinter::with_stdout(printer_opts)? or BatPrinter::new (main.rs
\* 535-545, 554, 569), then the search or the stdin pipeline.
BuildPrinter ==
    /\ mainpc = "printer"
    /\ IF printer_ok
       THEN /\ mainpc' = IF mode = "grep" THEN "walk" ELSE "grep"
            /\ UNCHANGED result
       ELSE /\ mainpc' = "returned"
            /\ result' = Err(Error("printer", 0))
    /\ UNCHANGED <<world, walkv, paths, count, full, upc, acc, buf, ures,
                   printed, status>>

\* ---------------------------------------------------------------- walk
\* One entry reaches the closure of walk() (ripgrep.rs 352-363).
WalkEntry(e) ==
    /\ mainpc = "walk"
    /\ e \in DOMAIN entries
    /\ e \notin visited
    /\ ~quit
    /\ visited' = visited \cup {e}
    /\ \/ /\ entries[e].kind = "file"
          /\ rx' = rx \cup {[ok |-> TRUE, id |-> e]}
          /\ quit' = quit
       \/ /\ entries[e].kind = "dir"
          /\ UNCHANGED <<rx, quit>>
       \/ /\ entries[e].kind = "werr"
          /\ rx' = rx \cup {[ok |-> FALSE, id |-> e]}
          /\ quit' = TRUE
    /\ UNCHANGED <<world, mainpc, paths, count, full, upc, acc, buf, ures,
                   printed, result, status>>

\* rx.into_iter().collect::<Result<Vec<_>>>() (ripgrep.rs 367)
CollectLenient(msgs) == NoResult

\* an Err message makes the whole collection that Err, else the Vec is kept
Collect(msgs) ==
    IF \E m \in msgs : ~m.ok
    THEN Err(Error("walk", (CHOOSE m \in msgs : ~m.ok).id))
    ELSE NoResult

\* the paths of the collected Vec
Walked(msgs) == {m.id : m \in {x \in msgs : x.ok}}

\* The walker has finished: grep() collects the paths, returns early or
\* builds the matcher and Ripgrep::new (ripgrep.rs 330-339, 427-434).
WalkDone ==
    /\ mainpc = "walk"
    /\ quit \/ visited = DOMAIN entries
    /\ LET walked == Walked(rx)
           early == IF Collect(rx) # NoResult THEN Collect(rx)
                    ELSE IF walked = {} THEN Ok(FALSE)
                    ELSE IF ~pattern_ok THEN Err(Error("pattern", 0))
                    ELSE NoResult
       IN  IF early # NoResult
           THEN /\ result' = early
                /\ mainpc' = "returned"
                /\ UNCHANGED <<paths, count>>
           ELSE /\ paths' = walked
                /\ count' = max_count
                /\ mainpc' = "grep"
                /\ UNCHANGED result
    /\ UNCHANGED <<world, walkv, full, upc, acc, buf, ures, printed, status>>

\* ---------------------------------------------------------------- units
\* The fold takes the next item unless the short-circuit flag is up: the
\* closure of Ripgrep::grep calls grep_file (ripgrep.rs 465-470); in stdin
\* mode the next File is pulled from chunks_per_file (main.rs 555-563,
\* 573-579), in stream order.
Start(i) ==
    /\ mainpc = "grep"
    /\ i \in paths
    /\ upc[i] = "idle"
    /\ ~full
    /\ Cardinality(Running) < WorkerLimit
    /\ IF mode = "grep"
       THEN /\ upc' = [upc EXCEPT ![i] = "search"]
            /\ buf' = buf
       ELSE /\ \A j \in paths : j < i => upc[j] # "idle"
            /\ upc' = [upc EXCEPT ![i] = "searched"]
            /\ buf' = [buf EXCEPT ![i] = MatchLines(Matches(i)[1], FALSE)]
    /\ UNCHANGED <<world, mainpc, walkv, paths, count, full, acc, ures,
                   printed, result, status>>

\* Ripgrep::search consults the budget before it opens the file
\* (ripgrep.rs 437-441).
CheckBudget(i) ==
    /\ mainpc = "grep"
    /\ upc[i] = "search"
    /\ upc' = [upc EXCEPT ![i] = IF BudgetExhausted(count) THEN "searched" ELSE "open"]
    /\ UNCHANGED <<world, mainpc, walkv, paths, count, full, acc, buf, ures,
                   printed, result, status>>

\* File::open(&path)? (ripgrep.rs 442)
Open(i) ==
    /\ mainpc = "grep"
    /\ upc[i] = "open"
    /\ IF entries[i].fail = "open"
       THEN /\ upc' = [upc EXCEPT ![i] = "done"]
            /\ ures' = [ures EXCEPT ![i] = Err(Error("open", i))]
            /\ full' = TRUE
       ELSE /\ upc' = [upc EXCEPT ![i] = "matching"]
            /\ UNCHANGED <<ures, full>>
    /\ UNCHANGED <<world, mainpc, walkv, paths, count, acc, buf, printed,
                   result, status>>

\* The searcher reports the next match to the sink: Matches::matched
\* (ripgrep.rs 380-400).  Returning false ends the search of this file.
Matched(i) ==
    /\ mainpc = "grep"
    /\ upc[i] = "matching"
    /\ acc[i] < Len(Matches(i))
    /\ IF BudgetExhausted(count)
       THEN /\ upc' = [upc EXCEPT ![i] = "searched"]
            /\ UNCHANGED <<count, acc, buf>>
       ELSE /\ count' = Decrement(count)
            /\ acc' = [acc EXCEPT ![i] = @ + 1]
            /\ buf' = [buf EXCEPT ![i] = @ \o MatchLines(Matches(i)[acc[i] + 1], multiline)]
            /\ upc' = upc
    /\ UNCHANGED <<world, mainpc, walkv, paths, full, ures, printed, result, status>>

\* searcher.search_file(..)? has gone through the file (ripgrep.rs 450-451);
\* a file whose search fails does so here, once its matches have been
\* reported: a search the sink has stopped reads no further.
SearchEnd(i) ==
    /\ mainpc = "grep"
    /\ upc[i] = "matching"
    /\ acc[i] = Len(Matches(i))
    /\ IF entries[i].fail = "search"
       THEN /\ upc' = [upc EXCEPT ![i] = "done"]
            /\ ures' = [ures EXCEPT ![i] = Err(Error("search", i))]
            /\ full' = TRUE
       ELSE /\ upc' = [upc EXCEPT ![i] = "searched"]
            /\ UNCHANGED <<ures, full>>
    /\ UNCHANGED <<world, mainpc, walkv, paths, count, acc, buf, printed,
                   result, status>>

\* The loop of grep_file over Files::new (ripgrep.rs 456-462); in stdin mode
\* `printer.print(file?)?` (main.rs 560, 577).
PrintFile(i) ==
    /\ mainpc = "grep"
    /\ upc[i] = "searched"
    /\ upc' = [upc EXCEPT ![i] = "done"]
    /\ LET files == Files(i, buf[i])
       IN  IF files = <<>>
           THEN /\ ures' = [ures EXCEPT ![i] = Ok(FALSE)]
                /\ UNCHANGED <<printed, full>>
           ELSE IF entries[i].fail \in {"agg", "print"}
           THEN /\ ures' = [ures EXCEPT ![i] = Err(Error(entries[i].fail, i))]
                /\ full' = TRUE
                /\ UNCHANGED printed
           ELSE /\ printed' = Push(printed, files)
                /\ ures' = [ures EXCEPT ![i] = Ok(TRUE)]
                /\ UNCHANGED full
    /\ UNCHANGED <<world, mainpc, walkv, paths, count, acc, buf, result, status>>

TryReduceLossy(rs, ran) == {Ok(AnyFound(rs, ran))}

\* try_reduce(|| false, |a, b| Ok(a || b)) over what the units returned: an
\* Err of some unit if there is one, else the disjunction.
TryReduce(rs, ran) ==
    IF \E i \in ran : rs[i].tag = "err"
    THEN {Err(rs[i].err) : i \in {j \in ran : rs[j].tag = "err"}}
    ELSE {Ok(AnyFound(rs, ran))}

\* Every unit has returned or will not be started: grep / the stdin path
\* returns (ripgrep.rs 465-470, main.rs 563, 580).
Reduce ==
    /\ mainpc = "grep"
    /\ Running = {}
    /\ full \/ \A i \in paths : upc[i] = "done"
    /\ result' \in TryReduce(ures, {i \in paths : upc[i] = "done"})
    /\ mainpc' = "returned"
    /\ UNCHANGED <<world, walkv, paths, count, full, upc, acc, buf, ures,
                   printed, status>>

ExitStatusNoErr(r) == IF r.found THEN 0 ELSE 1

\* main.rs 592-599
ExitStatus(r) == IF r.tag = "err" THEN 2 ELSE IF r.found THEN 0 ELSE 1

\* process::exit(status) (main.rs 600)
Exit ==
    /\ mainpc = "returned"
    /\ status' = ExitStatus(result)
    /\ mainpc' = "exited"
    /\ UNCHANGED <<world, walkv, paths, count, full, upc, acc, buf, ures,
                   printed, result>>

Next ==
    \/ BuildPrinter
    \/ \E e \in Ids : WalkEntry(e)
    \/ WalkDone
    \/ \E i \in Ids : Start(i)
    \/ \E i \in Ids : CheckBudget(i)
    \/ \E i \in Ids : Open(i)
    \/ \E i \in Ids : Matched(i)
    \/ \E i \in Ids : SearchEnd(i)
    \/ \E i \in Ids : PrintFile(i)
    \/ Reduce
    \/ Exit

Spec == Init /\ [][Next]_vars

\* ================================================================ app()
\* The option handling of app() (main.rs 335-584) up to the call of the
\* search or of the stdin pipeline, which Spec covers.  Options whose values
\* no later step reads (--tab, --theme, --wrap, --first-only, globs, types)
\* are left out; numbers arrive parsed.

\* the variables of the search and of main()'s exit
searchv == <<entries, max_count, multiline, pattern_ok, printer_ok, mode,
             mainpc, visited, rx, quit, paths, count, full, upc, acc, buf,
             ures, printed, result, config, calls, matcher>>

\* `return` of app()
Return(a, r) == [a EXCEPT !.pc = "done", !.ret = r]

\* what the step has written to stdout or read from stdin
Did(a, what) == [a EXCEPT !.effects = @ \cup {what}]

ClampMaxRaw(min, max) == max

\* `cmp::max(min_context, max_context)` (main.rs 368)
ClampMax(min, max) == IF min >= max THEN min ELSE max

GridDropped(default, is_grid, no_grid, kind, style) ==
    IF no_grid THEN FALSE ELSE default

\* printer_opts.grid after main.rs 389-402
Grid(default, is_grid, no_grid, kind, style) ==
    LET by_style == IF /\ kind = "bat"
                       /\ style \in {"plain", "header", "numbers"}
                       /\ ~is_grid
                    THEN FALSE
                    ELSE default
    IN  IF no_grid /\ ~is_grid THEN FALSE ELSE by_style

TooSmallNever(width) == FALSE

\* `width < 10` (main.rs 409)
TooSmall(width) == width < MinTermWidth

UnsupportedNone(kind, option) == FALSE

\* the options one printer has and the other lacks (main.rs 432, 440, 451)
Unsupported(kind, option) ==
    \/ option \in {"background", "ascii-lines"} /\ kind = "bat"
    \/ option = "custom-assets" /\ kind = "syntect"

\* the Config of main.rs 474-493, setters in the order of the source
ConfigOf(min, max, flags) ==
    line_regexp(
      word_regexp(
        fixed_strings(
          pcre2(
            smart_case(
              case_insensitive(
                max_context(min_context(DefaultConfig, min), max),
                flags["ignore-case"]),
              flags["smart-case"]),
            flags["pcre2"]),
          flags["fixed-strings"]),
        flags["word-regexp"]),
      flags["line-regexp"])

\* what a command that writes to stdout, searches or prints can return
Outcomes(what) == {Ok(TRUE), Err(Error(what, 0))}

InitApp ==
    /\ cli \in Clis
    /\ app = StartApp
    /\ chunker = StartChunker(<<>>, 0, 0)
    /\ config = DefaultConfig
    /\ calls = <<>>
    /\ matcher = NoMatcher
    /\ entries = <<>>
    /\ max_count = None
    /\ multiline = FALSE
    /\ pattern_ok = TRUE
    /\ printer_ok = TRUE
    /\ mode = "grep"
    /\ mainpc = "app"
    /\ visited = {}
    /\ rx = {}
    /\ quit = FALSE
    /\ paths = {}
    /\ count = None
    /\ full = FALSE
    /\ upc = [i \in Ids |-> "idle"]
    /\ acc = [i \in Ids |-> 0]
    /\ buf = [i \in Ids |-> <<>>]
    /\ ures = [i \in Ids |-> NoResult]
    /\ printed = <<>>
    /\ result = NoResult
    /\ status = None

\* --generate-completion-script (main.rs 337-340)
GenerateCompletion ==
    /\ app.pc = "start"
    /\ app' = IF cli.completion
              THEN Return(Did(app, "completion"), Ok(TRUE))
              ELSE [app EXCEPT !.pc = "printer"]
    /\ UNCHANGED <<cli, chunker, searchv, status>>

\* --printer (main.rs 343-356)
ParsePrinter ==
    /\ app.pc = "printer"
    /\ app' = IF cli.printer = "other"
              THEN Return(app, Err(Error("printer", 0)))
              ELSE [app EXCEPT !.printer_kind = cli.printer, !.pc = "context"]
    /\ UNCHANGED <<cli, chunker, searchv, status>>

\* --min-context, --max-context (main.rs 358-368)
ParseContext ==
    /\ app.pc = "context"
    /\ app' = [app EXCEPT !.min_context = cli.min_context,
                          !.max_context = ClampMax(cli.min_context,
                                                   cli.max_context),
                          !.pc = "grid"]
    /\ UNCHANGED <<cli, chunker, searchv, status>>

\* --grid, --no-grid, BAT_STYLE (main.rs 389-402)
ParseGrid ==
    /\ app.pc = "grid"
    /\ app' = [app EXCEPT !.grid = Grid(app.grid, cli.grid, cli.no_grid,
                                        app.printer_kind, cli.bat_style),
                          !.pc = "term_width"]
    /\ UNCHANGED <<cli, chunker, searchv, status>>

\* --term-width (main.rs 404-412): the value is stored, then checked
ParseTermWidth ==
    /\ app.pc = "term_width"
    /\ app' = IF cli.term_width = None
              THEN [app EXCEPT !.pc = "backend"]
              ELSE LET a == [app EXCEPT !.term_width = cli.term_width]
                   IN  IF TooSmall(cli.term_width)
                       THEN Return(a, Err(Error("term-width", 0)))
                       ELSE [a EXCEPT !.pc = "backend"]
    /\ UNCHANGED <<cli, chunker, searchv, status>>

\* --background, --ascii-lines, --custom-assets (main.rs 428-454)
BackendOptions ==
    /\ app.pc = "backend"
    /\ LET k == app.printer_kind
           a1 == [app EXCEPT !.background_color = cli.background]
           a2 == [a1 EXCEPT !.ascii_lines = cli.ascii_lines]
           a3 == [a2 EXCEPT !.custom_assets = cli.custom_assets]
       IN  app' =
             IF cli.background /\ Unsupported(k, "background")
             THEN Return(a1, Err(Error("background", 0)))
             ELSE IF cli.ascii_lines /\ Unsupported(k, "ascii-lines")
             THEN Return(a2, Err(Error("ascii-lines", 0)))
             ELSE IF cli.custom_assets /\ Unsupported(k, "custom-assets")
             THEN Return(a3, Err(Error("custom-assets", 0)))
             ELSE [a3 EXCEPT !.pc = "themes"]
    /\ UNCHANGED <<cli, chunker, searchv, status>>

\* --list-themes (main.rs 456-470)
ListThemes ==
    /\ app.pc = "themes"
    /\ IF cli.list_themes
       THEN \E r \in Outcomes("themes") : app' = Return(Did(app, "themes"), r)
       ELSE app' = [app EXCEPT !.pc = "pattern"]
    /\ UNCHANGED <<cli, chunker, searchv, status>>

\* `if let Some(pattern) = matches.value_of("PATTERN")`: the Config and
\* --type-list (main.rs 472-498)
BuildConfig ==
    /\ app.pc = "pattern"
    /\ IF cli.pattern
       THEN \E flags \in [FlagNames -> BOOLEAN] :
              LET a == [app EXCEPT !.flags = flags,
                                   !.config = ConfigOf(app.min_context,
                                                       app.max_context, flags)]
              IN  IF cli.type_list
                  THEN \E r \in Outcomes("types") :
                          app' = Return(Did(a, "types"), r)
                  ELSE app' = [a EXCEPT !.pc = "search"]
       ELSE app' = [app EXCEPT !.pc = "stdin"]
    /\ UNCHANGED <<cli, chunker, searchv, status>>

\* the rest of the PATTERN block: ripgrep::grep with the Config, whose
\* contexts grep_file hands to Files::new (main.rs 500-548, ripgrep.rs 454-463)
RunSearch ==
    /\ app.pc = "search"
    /\ \E r \in Outcomes("grep") \cup {Ok(FALSE)} :
          app' = Return([Did(app, "search") EXCEPT
                            !.chunked = <<app.config.min_context,
                                          app.config.max_context>>], r)
    /\ UNCHANGED <<cli, chunker, searchv, status>>

\* no PATTERN: grep_lines().chunks_per_file(min_context, max_context) over
\* stdin (main.rs 550-581)
RunStdin ==
    /\ app.pc = "stdin"
    /\ \E r \in Outcomes("stdin") \cup {Ok(FALSE)} :
          app' = Return([Did(app, "stdin") EXCEPT
                            !.chunked = <<app.min_context, app.max_context>>],
                        r)
    /\ UNCHANGED <<cli, chunker, searchv, status>>

\* main(): the exit status of what app() returned (main.rs 586-601)
AppExit ==
    /\ app.pc = "done"
    /\ status' = ExitStatus(app.ret)
    /\ app' = [app EXCEPT !.pc = "exited"]
    /\ UNCHANGED <<cli, chunker, searchv>>

NextApp ==
    \/ GenerateCompletion
    \/ ParsePrinter
    \/ ParseContext
    \/ ParseGrid
    \/ ParseTermWidth
    \/ BackendOptions
    \/ ListThemes
    \/ BuildConfig
    \/ RunSearch
    \/ RunStdin
    \/ AppExit

SpecApp == InitApp /\ [][NextApp]_vars

\* ================================================================ chunks
\* The aggregation of the match events of one file into chunks (Files::new
\* of grep_file, chunks_per_file of the stdin paths): for each match the
\* window of max_context lines around it, merged into the open chunk when
\* the gap to it is below 2 * min_context.

Max(a, b) == IF a >= b THEN a ELSE b

\* the line numbers of one file's match events: in the order of the file,
\* a line may repeat
MatchStreams ==
    {ms \in UNION {[1..k -> 1..FileLines] : k \in 0..MaxEvents} :
        \A j \in 1..(Len(ms) - 1) : ms[j] <= ms[j + 1]}

\* the (min_context, max_context) pairs app() hands over
ContextPairs ==
    {p \in (0..MaxContext) \X (0..MaxContext) : p[1] <= p[2]}

Clip(x, lo, hi) == IF x < lo THEN lo ELSE IF x > hi THEN hi ELSE x

\* W_i = clip([m_i - max_context, m_i + max_context], 1, N)
Window(m, max, n) ==
    [start |-> Clip(m - max, 1, n), end |-> Clip(m + max, 1, n)]

\* gap = W_i.start - C.end - 1
Gap(w, c) == w.start - c.end - 1

MergeNever(gap, min) == FALSE

\* `gap < 2 * min_context`
ShouldMerge(gap, min) == gap < 2 * min

\* C := W_i
NewChunk(w, m) == [start |-> w.start, end |-> w.end, matched |-> <<m>>]

\* C.end := max(C.end, W_i.end), m_i joins the matched lines
Merge(c, w, m) ==
    [c EXCEPT !.end = Max(c.end, w.end), !.matched = Append(@, m)]

InitChunks ==
    /\ \E ms \in MatchStreams, p \in ContextPairs :
          chunker = StartChunker(ms, p[1], p[2])
    /\ cli = DefaultCli
    /\ app = [StartApp EXCEPT !.pc = "search"]
    /\ config = DefaultConfig
    /\ calls = <<>>
    /\ matcher = NoMatcher
    /\ entries = <<>>
    /\ max_count = None
    /\ multiline = FALSE
    /\ pattern_ok = TRUE
    /\ printer_ok = TRUE
    /\ mode = "grep"
    /\ mainpc = "grep"
    /\ visited = {}
    /\ rx = {}
    /\ quit = FALSE
    /\ paths = {}
    /\ count = None
    /\ full = FALSE
    /\ upc = [i \in Ids |-> "idle"]
    /\ acc = [i \in Ids |-> 0]
    /\ buf = [i \in Ids |-> <<>>]
    /\ ures = [i \in Ids |-> NoResult]
    /\ printed = <<>>
    /\ result = NoResult
    /\ status = None

\* the first match opens the first chunk
FirstMatch ==
    /\ ~chunker.done
    /\ ~chunker.open
    /\ chunker.next <= Len(chunker.matches)
    /\ LET m == chunker.matches[chunker.next]
           w == Window(m, chunker.max, FileLines)
       IN  chunker' = [chunker EXCEPT !.open = TRUE, !.cur = NewChunk(w, m),
                                      !.owner = Append(@, 1),
                                      !.next = @ + 1]
    /\ UNCHANGED <<cli, app, searchv, status>>

\* a later match joins the open chunk or closes it and opens the next
NextMatch ==
    /\ ~chunker.done
    /\ chunker.open
    /\ chunker.next <= Len(chunker.matches)
    /\ LET m == chunker.matches[chunker.next]
           w == Window(m, chunker.max, FileLines)
       IN  chunker' =
             IF ShouldMerge(Gap(w, chunker.cur), chunker.min)
             THEN [chunker EXCEPT !.cur = Merge(@, w, m),
                                  !.owner = Append(@, Len(chunker.out) + 1),
                                  !.next = @ + 1]
             ELSE [chunker EXCEPT !.out = Append(@, chunker.cur),
                                  !.cur = NewChunk(w, m),
                                  !.owner = Append(@, Len(chunker.out) + 2),
                                  !.next = @ + 1]
    /\ UNCHANGED <<cli, app, searchv, status>>

\* after the last match the open chunk is closed; no match, no chunk
LastChunk ==
    /\ ~chunker.done
    /\ chunker.next > Len(chunker.matches)
    /\ chunker' = [chunker EXCEPT
                      !.out = IF chunker.open THEN Append(@, chunker.cur)
                              ELSE @,
                      !.open = FALSE,
                      !.done = TRUE]
    /\ UNCHANGED <<cli, app, searchv, status>>

NextChunks ==
    \/ FirstMatch
    \/ NextMatch
    \/ LastChunk

SpecChunks == InitChunks /\ [][NextChunks]_vars

\* ================================================================ Config
\* A Config built by any sequence of its boolean setters, then handed to
\* grep, which builds the matcher from it.

Setters ==
    {"case_insensitive", "smart_case", "fixed_strings", "word_regexp",
     "line_regexp", "pcre2"}

\* the Config after one more setter call
Apply(c, setter, yes) ==
    CASE setter = "case_insensitive" -> case_insensitive(c, yes)
      [] setter = "smart_case" -> smart_case(c, yes)
      [] setter = "fixed_strings" -> fixed_strings(c, yes)
      [] setter = "word_regexp" -> word_regexp(c, yes)
      [] setter = "line_regexp" -> line_regexp(c, yes)
      [] setter = "pcre2" -> pcre2(c, yes)

\* the variables no step of the Config construction changes
restv == <<entries, max_count, multiline, pattern_ok, printer_ok, mode,
           mainpc, visited, rx, quit, paths, count, full, upc, acc, buf,
           ures, printed, result, status, cli, app, chunker>>

InitConfig ==
    /\ config = DefaultConfig
    /\ calls = <<>>
    /\ matcher = NoMatcher
    /\ cli = DefaultCli
    /\ app = [StartApp EXCEPT !.pc = "pattern"]
    /\ chunker = StartChunker(<<>>, 0, 0)
    /\ entries = <<>>
    /\ max_count = None
    /\ multiline = FALSE
    /\ pattern_ok = TRUE
    /\ printer_ok = TRUE
    /\ mode = "grep"
    /\ mainpc = "config"
    /\ visited = {}
    /\ rx = {}
    /\ quit = FALSE
    /\ paths = {}
    /\ count = None
    /\ full = FALSE
    /\ upc = [i \in Ids |-> "idle"]
    /\ acc = [i \in Ids |-> 0]
    /\ buf = [i \in Ids |-> <<>>]
    /\ ures = [i \in Ids |-> NoResult]
    /\ printed = <<>>
    /\ result = NoResult
    /\ status = None

\* one call of a setter (ripgrep.rs 75-123, 165-168)
CallSetter(setter, yes) ==
    /\ matcher = NoMatcher
    /\ Len(calls) < MaxCalls
    /\ config' = Apply(config, setter, yes)
    /\ calls' = Append(calls, <<setter, yes>>)
    /\ UNCHANGED <<matcher, restv>>

\* the boolean setters app() calls on its Config, in the order of the source
\* (main.rs 479-492)
AppCalls(flags) ==
    <<<<"case_insensitive", flags["ignore-case"]>>,
      <<"smart_case", flags["smart-case"]>>,
      <<"pcre2", flags["pcre2"]>>,
      <<"fixed_strings", flags["fixed-strings"]>>,
      <<"word_regexp", flags["word-regexp"]>>,
      <<"line_regexp", flags["line-regexp"]>>>>

RECURSIVE ApplyAll(_, _)
\* the Config after the calls of cs, first to last
ApplyAll(c, cs) ==
    IF cs = <<>> THEN c
    ELSE ApplyAll(Apply(c, Head(cs)[1], Head(cs)[2]), Tail(cs))

\* the chain of setter calls of app() on a default Config (main.rs 474-493)
CallChain(flags) ==
    /\ matcher = NoMatcher
    /\ calls = <<>>
    /\ config' = ApplyAll(config, AppCalls(flags))
    /\ calls' = AppCalls(flags)
    /\ UNCHANGED <<matcher, restv>>

\* grep(printer, pat, paths, config) picks the engine and builds the matcher
\* (ripgrep.rs 335-339, 410-420)
BuildMatcher ==
    /\ matcher = NoMatcher
    /\ matcher' = MatcherOf(config)
    /\ UNCHANGED <<config, calls, restv>>

NextConfig ==
    \/ \E setter \in Setters, yes \in BOOLEAN : CallSetter(setter, yes)
    \/ \E flags \in [FlagNames -> BOOLEAN] : CallChain(flags)
    \/ BuildMatcher

SpecConfig == InitConfig /\ [][NextConfig]_vars

\* ================================================================ claims
Returned == mainpc \in {"returned", "exited"}

TotalAccepted == SumTo(acc, NumPaths)

TotalMatches == SumTo([i \in Ids |-> IF i \in paths THEN Len(Matches(i)) ELSE 0], NumPaths)

\* search(path) has returned Ok for unit i
SearchedOk(i) ==
    /\ upc[i] \in {"searched", "done"}
    /\ ures[i].err.kind \notin {"open", "search"}

\* C1: with max_count = n and single-line matches, never more than n matches
\* are accepted over all files together, and once every walked file has been
\* searched without error exactly min(n, number of matches in the files) are.
C1_SharedBudgetExact ==
    (mode = "grep" /\ paths # {} /\ max_count # None /\ ~multiline)
    => /\ TotalAccepted <= max_count
       /\ (\A i \in paths : SearchedOk(i)) => TotalAccepted = Min(max_count, TotalMatches)

\* two files of two matches each, a budget of two, one match taken from each
C1_Witness ==
    /\ mode = "grep" /\ ~multiline /\ max_count = 2 /\ paths = {1, 2}
    /\ \A i \in paths : SearchedOk(i) /\ Len(Matches(i)) = 2 /\ acc[i] = 1

\* C2: --max-count NUM is a limit per file: every file searched without error
\* contributes min(NUM, its matches) matching lines, whatever the other files
\* of the run have produced.
C2_PerFileLimit ==
    (mode = "grep" /\ max_count # None /\ ~multiline)
    => \A i \in paths : SearchedOk(i) => acc[i] = Min(max_count, Len(Matches(i)))

\* the Files the printer holds carry exactly the events their unit buffered
PrintedAsBuffered(out, b) == \A k \in 1..Len(out) : out[k].lines = b[out[k].path]

\* C3: once the shared counter is zero it stays zero, no unit accepts another
\* match (no counter, buffer or acceptance changes), a search that meets its
\* next match ends there with what it had, and every printed File carries
\* exactly the events buffered before aggregation.
C3_ZeroIsFinal ==
    [][(mainpc = "grep" /\ mode = "grep" /\ count = 0)
         => /\ count' = 0
            /\ acc' = acc
            /\ buf' = buf
            /\ \A i \in paths :
                 (upc[i] = "matching" /\ acc[i] < Len(Matches(i)) /\ upc'[i] # upc[i])
                   => upc'[i] = "searched"
            /\ PrintedAsBuffered(printed', buf')]_vars

\* the budget is used up while a search stands in the middle of its file
C3_Witness ==
    /\ mode = "grep" /\ count = 0
    /\ \E i \in paths : upc[i] = "searched" /\ 0 < acc[i] /\ acc[i] < Len(Matches(i))
    /\ \E j \in paths : upc[j] = "done" /\ printed # <<>>

\* a print call was made, whether it succeeded or not
PrintCalled == printed # <<>> \/ \E i \in paths : ures[i].err.kind = "print"

\* the run ended before any unit was dispatched: the printer or the matcher
\* could not be built or the walk reported an error
FailedBeforeUnits ==
    \/ ~printer_ok
    \/ \E m \in rx : ~m.ok
    \/ ~pattern_ok /\ Walked(rx) # {}

\* C4 as stated, for the runs that built their printer: the run returns
\* Ok(true) exactly when no unit failed and a print call succeeded, and
\* Ok(false) whenever no unit failed and no print call was made.
C4_Original ==
    (Returned /\ printer_ok)
    => /\ (result = Ok(TRUE)) <=> (Failed = {} /\ printed # <<>>)
       /\ (Failed = {} /\ ~PrintCalled) => result = Ok(FALSE)

\* C4 (amended): the run returns Ok(true) exactly when no unit failed and a
\* print call succeeded; it returns Ok(false) when the walk and the
\* construction of the printer and the matcher succeeded, no unit failed and
\* no print call was made.
C4_RunResult ==
    Returned
    => /\ (result = Ok(TRUE)) <=> (Failed = {} /\ printed # <<>>)
       /\ (~FailedBeforeUnits /\ Failed = {} /\ ~PrintCalled) => result = Ok(FALSE)

\* a run of two units: one printed its File, the other found nothing
C4_Witness ==
    /\ Returned /\ result = Ok(TRUE) /\ Len(printed) = 1
    /\ \E i \in paths : ures[i] = Ok(FALSE)

\* ---- the run of the units one after the other, in the order of the list
\* grep_file on path i with c left in the budget: what it returns and what
\* it leaves (ripgrep.rs 436-463; main.rs 560, 577 in stdin mode)
SeqUnit(i, c) ==
    LET n == Len(Matches(i))
        a == IF c = None THEN n ELSE Min(c, n)
        left == IF c = None THEN None ELSE c - a
        f == entries[i].fail
    IN  IF mode # "grep"
        THEN [res |-> IF f = "none" THEN Ok(TRUE) ELSE Err(Error(f, i)), c |-> c]
        ELSE IF c = 0 THEN [res |-> Ok(FALSE), c |-> c]
        ELSE IF f = "open" THEN [res |-> Err(Error(f, i)), c |-> c]
        ELSE IF f = "search" /\ a = n THEN [res |-> Err(Error(f, i)), c |-> left]
        ELSE IF a = 0 THEN [res |-> Ok(FALSE), c |-> left]
        ELSE IF f \in {"agg", "print"} THEN [res |-> Err(Error(f, i)), c |-> left]
        ELSE [res |-> Ok(TRUE), c |-> left]

RECURSIVE SeqRun(_, _, _)
SeqRun(i, c, found) ==
    IF i > NumPaths THEN Ok(found)
    ELSE IF ~IsFile(i) THEN SeqRun(i + 1, c, found)
    ELSE LET r == SeqUnit(i, c)
         IN  IF r.res.tag = "err" THEN r.res
             ELSE SeqRun(i + 1, r.c, found \/ r.res.found)

\* what grep returns when the files are taken one at a time, first to last
SeqResult ==
    IF \A e \in DOMAIN entries : ~IsFile(e) THEN Ok(FALSE)
    ELSE IF ~pattern_ok THEN Err(Error("pattern", 0))
    ELSE SeqRun(1, max_count, FALSE)

WalkSucceeded ==
    /\ mode = "grep" /\ Returned /\ printer_ok
    /\ \A e \in DOMAIN entries : entries[e].kind # "werr"

\* Ok(true), Ok(false) or Err, whichever error it is
Outcome(r) == [tag |-> r.tag, found |-> r.found]

\* C5 as stated: for a fixed list of walked files, fixed per-file behaviour
\* and fixed configuration every interleaving returns the same value as the
\* in-order run, with or without a budget (read in its weakest sense: the
\* same of Ok(true), Ok(false) and Err).
C5_Original == WalkSucceeded => Outcome(result) = Outcome(SeqResult)

NoFailingFile == \A e \in DOMAIN entries : entries[e].fail = "none"

\* C5 (amended): when no file unit can fail, every interleaving returns the
\* same value, with or without a budget; without a budget every
\* interleaving agrees on Ok(true), Ok(false) or Err, though not on which
\* unit's error is returned.
C5_Deterministic ==
    WalkSucceeded
    => /\ NoFailingFile => result = SeqResult
       /\ max_count = None => Outcome(result) = Outcome(SeqResult)

\* a budget of one that the second file took, not the first
C5_Witness ==
    /\ WalkSucceeded /\ NoFailingFile /\ max_count = 1
    /\ \A i \in Ids : Len(Matches(i)) > 0
    /\ Len(printed) = 1 /\ printed[1].path = 2
    /\ result = Ok(TRUE)

\* C6: if any file unit failed, the run returns Err, never Ok, and the error
\* is the one some unit raised, unchanged: the failure of that unit's file.
C6_ErrorPropagates ==
    (Returned /\ Failed # {})
    => /\ result.tag = "err"
       /\ \E i \in Failed :
            /\ result.err = ures[i].err
            /\ result.err = Error(entries[i].fail, i)

\* the printer's error is the error of the run
C6_Witness ==
    /\ Returned /\ mode = "grep" /\ result.tag = "err" /\ result.err.kind = "print"
    /\ Cardinality(Failed) = 1

IsPrefix(s, t) == Len(s) <= Len(t) /\ SubSeq(t, 1, Len(s)) = s

\* C7: once a unit has failed no idle unit is started, the run returns only
\* when no unit is running, and what the printer has received only grows.
C7_ShortCircuit ==
    [][/\ Failed # {} => \A i \in Ids : upc[i] = "idle" => upc'[i] = "idle"
       /\ (mainpc = "grep" /\ mainpc' # "grep") => Running = {}
       /\ IsPrefix(printed, printed')]_vars

\* the run returned with a failed unit and a unit that was never started
C7_Witness ==
    /\ Returned /\ Failed # {}
    /\ \E i \in paths : upc[i] = "idle"

\* C8: while the walk is running no unit has started and nothing is printed;
\* if the walk reported an error, no unit ever starts, nothing is printed and
\* grep returns that walk error, whatever files the walk also delivered.
C8_WalkErrorFirst ==
    /\ mainpc \in {"printer", "walk"} => ((\A i \in Ids : upc[i] = "idle") /\ printed = <<>>)
    /\ (mode = "grep" /\ mainpc # "walk" /\ \E m \in rx : ~m.ok)
       => /\ result.tag = "err" /\ result.err.kind = "walk"
          /\ entries[result.err.id].kind = "werr"
          /\ \A i \in Ids : upc[i] = "idle"
          /\ printed = <<>>

\* the walk delivered a file with matches and an error
C8_Witness ==
    /\ Returned /\ mode = "grep"
    /\ \E m \in rx : ~m.ok
    /\ \E m \in rx : m.ok /\ Len(Matches(m.id)) > 0

RECURSIVE LinesUpTo(_, _, _)
\* the events of the first n matches of a file
LinesUpTo(ms, n, ml) ==
    IF n = 0 THEN <<>> ELSE LinesUpTo(ms, n - 1, ml) \o MatchLines(ms[n], ml)

WithMatch == {i \in Walked(rx) : Len(Matches(i)) > 0}

\* C9: without a budget and without a failing unit the printer ends up with
\* exactly one File for each walked path that has a match, holding all the
\* matched lines of that path, and with no other File, in some order.
C9_SameFiles ==
    (mode = "grep" /\ max_count = None /\ Returned /\ result.tag = "ok" /\ Failed = {})
    => /\ Len(printed) = Cardinality(WithMatch)
       /\ \A i \in WithMatch :
            \E k \in 1..Len(printed) :
               /\ printed[k] = [path |-> i,
                                lines |-> LinesUpTo(Matches(i), Len(Matches(i)), multiline)]
               /\ \A l \in 1..Len(printed) : printed[l].path = i => l = k

\* both files printed, the second one first
C9_Witness ==
    /\ mode = "grep" /\ max_count = None /\ Returned /\ Failed = {}
    /\ Len(printed) = 2 /\ printed[1].path = 2 /\ printed[2].path = 1

Rendered == printed # <<>>

\* an error was raised in the run: by the printer's or the matcher's
\* construction, by the walk or by a unit
ErrorOccurred ==
    \/ \E m \in rx : ~m.ok
    \/ result.err.kind \in {"printer", "pattern"}
    \/ Failed # {}

\* C10 as stated: the exit status is 0 exactly when a match was rendered, 1
\* exactly when the run ended without error and rendered nothing, 2 exactly
\* when an error occurred.
C10_Original ==
    mainpc = "exited"
    => /\ status = 0 <=> Rendered
       /\ status = 1 <=> (~ErrorOccurred /\ ~Rendered)
       /\ status = 2 <=> ErrorOccurred

\* C10 (amended): the exit status is 0 exactly when the run ended without
\* error and a match was rendered, 1 exactly when it ended without error and
\* rendered nothing, 2 exactly when an error occurred.
C10_ExitStatus ==
    mainpc = "exited"
    => /\ status = 0 <=> (~ErrorOccurred /\ Rendered)
       /\ status = 1 <=> (~ErrorOccurred /\ ~Rendered)
       /\ status = 2 <=> ErrorOccurred
       /\ status \in {0, 1, 2}

\* a match was rendered and the run still ended in an error
C10_Witness == mainpc = "exited" /\ status = 2 /\ Rendered /\ ErrorOccurred

\* ---------------------------------------------------------------- C11
\* C11: for every --min-context/--max-context pair the command line gives,
\* the pair handed to the aggregation, by the search (through the Config) and
\* by the stdin path alike, has min <= max, the min of the command line, and
\* as max the larger of the two values of the command line.
C11_ContextPair ==
    app.chunked # <<>> =>
        /\ app.chunked[1] <= app.chunked[2]
        /\ app.chunked[1] = cli.min_context
        /\ cli.min_context >= cli.max_context => app.chunked[2] = cli.min_context
        /\ cli.min_context < cli.max_context => app.chunked[2] = cli.max_context

C11_Witness ==
    /\ "search" \in app.effects
    /\ app.chunked # <<>>
    /\ cli.min_context > cli.max_context

\* ---------------------------------------------------------------- C12
\* app() has returned
AppReturned == app.pc \in {"done", "exited"}

\* nothing was written to stdout, walked, searched, printed or read
NoWork == app.effects = {}

\* the steps of app() after the one at position pc, in the order of the source
StepsAfter(pc) ==
    CASE pc = "context" -> {"grid", "term_width", "backend", "themes",
                            "pattern", "search", "stdin"}
      [] pc = "grid" -> {"term_width", "backend", "themes", "pattern",
                         "search", "stdin"}
      [] pc = "term_width" -> {"backend", "themes", "pattern", "search",
                               "stdin"}
      [] pc = "themes" -> {"pattern", "search", "stdin"}

\* the errors app() returns at or before the step at position pc
ErrorsUpTo(pc) ==
    CASE pc = "context" -> {"printer"}
      [] pc = "grid" -> {"printer"}
      [] pc = "term_width" -> {"printer", "term-width"}
      [] pc = "themes" -> {"printer", "term-width", "background",
                           "ascii-lines", "custom-assets", "themes"}

\* the step at position pc has run to its end
Passed(pc) ==
    \/ app.pc \in StepsAfter(pc)
    \/ /\ AppReturned
       /\ "completion" \notin app.effects
       /\ app.ret.err.kind \notin ErrorsUpTo(pc)
       /\ pc = "themes" => "themes" \notin app.effects

\* C12 as stated: a --term-width below 10 ends the run with an error before
\* anything is walked, searched, printed or listed, whatever else the command
\* line holds.
C12_Original ==
    (AppReturned /\ cli.term_width # None /\ cli.term_width < MinTermWidth) =>
        (app.ret.tag = "err" /\ NoWork)

\* C12: unless --generate-completion-script is given, a --term-width below 10
\* ends the run with an error before anything is walked, searched, printed or
\* listed; a value of 10 or more is never the error of the run and is the
\* term_width of the printer options once the option has been handled.
C12_TermWidth ==
    /\ (/\ AppReturned
        /\ ~cli.completion
        /\ cli.term_width # None
        /\ cli.term_width < MinTermWidth) => (app.ret.tag = "err" /\ NoWork)
    /\ (cli.term_width # None /\ cli.term_width >= MinTermWidth) =>
          /\ app.ret.err.kind # "term-width"
          /\ Passed("term_width") => app.term_width = cli.term_width

C12_Witness ==
    /\ AppReturned
    /\ cli.term_width # None
    /\ cli.term_width < MinTermWidth
    /\ app.ret = Err(Error("term-width", 0))

\* ---------------------------------------------------------------- C13
\* the command line holds an option its printer lacks
BackendMismatch ==
    \/ cli.printer = "bat" /\ (cli.background \/ cli.ascii_lines)
    \/ cli.printer = "syntect" /\ cli.custom_assets

\* C13 as stated: --background or --ascii-lines with bat, and --custom-assets
\* with syntect, end the run with an error before themes are listed and
\* before anything is walked, searched or printed, whatever else the command
\* line holds.
C13_Original ==
    (AppReturned /\ BackendMismatch) => (app.ret.tag = "err" /\ NoWork)

\* C13: unless --generate-completion-script is given, --background or
\* --ascii-lines with bat, and --custom-assets with syntect, end the run with
\* an error before themes are listed and before anything is walked, searched
\* or printed.
C13_BackendOptions ==
    (AppReturned /\ ~cli.completion /\ BackendMismatch) =>
        (app.ret.tag = "err" /\ NoWork)

C13_Witness ==
    /\ AppReturned
    /\ cli.list_themes
    /\ cli.custom_assets
    /\ app.printer_kind = "syntect"
    /\ app.ret = Err(Error("custom-assets", 0))

\* ---------------------------------------------------------------- C14
\* C14: once --grid, --no-grid and BAT_STYLE have been handled, the grid is
\* off iff --grid is absent and either --no-grid is present or the printer is
\* bat and BAT_STYLE is plain, header or numbers.
C14_Grid ==
    Passed("grid") =>
        (app.grid = FALSE <=>
            /\ ~cli.grid
            /\ \/ cli.no_grid
               \/ /\ app.printer_kind = "bat"
                  /\ cli.bat_style \in {"plain", "header", "numbers"})

C14_Witness ==
    /\ Passed("grid")
    /\ cli.grid
    /\ cli.no_grid
    /\ app.printer_kind = "bat"
    /\ cli.bat_style = "numbers"
    /\ app.grid

\* ---------------------------------------------------------------- C18
\* C18: a run with --type-list that reports no error, and that neither
\* generates a completion script nor lists themes, shows the file types and
\* exits with status 0 without walking, searching or reading stdin, whether
\* or not PATTERN is present.
C18_TypeList ==
    (/\ app.pc = "exited"
     /\ cli.type_list
     /\ Passed("themes")
     /\ app.ret.tag = "ok") =>
        /\ app.effects = {"types"}
        /\ status = 0

\* ---------------------------------------------------------------- C15
\* the match events come one line each, in strictly increasing order
StrictlyIncreasing(ms) == \A j \in 1..(Len(ms) - 1) : ms[j] < ms[j + 1]

\* the chunks whose lines include line m
ChunksOver(m) ==
    {i \in 1..Len(chunker.out) :
        chunker.out[i].start <= m /\ m <= chunker.out[i].end}

\* C15: for strictly increasing matches and min_context <= max_context, the
\* chunks the aggregation produces are strictly increasing and do not
\* overlap (each ends before the next starts), and every match lies in
\* exactly one chunk, the one that lists it among its matched lines.
C15_Chunks ==
    (/\ chunker.done
     /\ StrictlyIncreasing(chunker.matches)
     /\ chunker.min <= chunker.max) =>
        /\ \A i \in 1..(Len(chunker.out) - 1) :
              /\ chunker.out[i].start < chunker.out[i + 1].start
              /\ chunker.out[i].end < chunker.out[i + 1].start
        /\ \A j \in 1..Len(chunker.matches) :
              /\ ChunksOver(chunker.matches[j]) = {chunker.owner[j]}
              /\ \E k \in 1..Len(chunker.out[chunker.owner[j]].matched) :
                    chunker.out[chunker.owner[j]].matched[k]
                        = chunker.matches[j]

C15_Witness ==
    /\ chunker.done
    /\ StrictlyIncreasing(chunker.matches)
    /\ Len(chunker.matches) = 3
    /\ Len(chunker.out) = 2
    /\ chunker.min = 1
    /\ chunker.out[2].end = FileLines

\* ---------------------------------------------------------------- C16
\* C16: with min_context = max_context = 0, two successive matches are in
\* the same chunk iff their lines are consecutive or identical, and every
\* chunk covers exactly its matched lines.
C16_NoContext ==
    (chunker.done /\ chunker.min = 0 /\ chunker.max = 0) =>
        /\ \A j \in 1..(Len(chunker.matches) - 1) :
              chunker.owner[j] = chunker.owner[j + 1]
                  <=> chunker.matches[j + 1] - chunker.matches[j] <= 1
        /\ \A i \in 1..Len(chunker.out) :
              chunker.out[i].start..chunker.out[i].end
                  = {chunker.out[i].matched[k] :
                        k \in 1..Len(chunker.out[i].matched)}

\* ---------------------------------------------------------------- C17
\* the position of the last call of the setter with the argument, 0 if none
LastCall(setter, yes) ==
    LET at == {j \in 1..Len(calls) : calls[j] = <<setter, yes>>}
    IN  IF at = {} THEN 0 ELSE CHOOSE j \in at : \A k \in at : k <= j

\* grep matches the pattern as a literal: escaped, by the regex engine
Literal == matcher.engine = "regex" /\ matcher.escaped

\* C17 as stated: a Config with fixed_strings enabled makes grep match the
\* pattern as a literal whatever the order of the setter calls was.
C17_Original ==
    (matcher # NoMatcher /\ config.fixed_strings) => Literal

\* C17: a Config with fixed_strings enabled makes grep match the pattern as
\* a literal (escaped, by the regex engine, not by PCRE2) whenever pcre2 was
\* not called with true after the last call of fixed_strings with true.
C17_FixedStrings ==
    (/\ matcher # NoMatcher
     /\ config.fixed_strings
     /\ LastCall("pcre2", TRUE) < LastCall("fixed_strings", TRUE)) => Literal

C17_Witness ==
    /\ matcher # NoMatcher
    /\ config.fixed_strings
    /\ 0 < LastCall("pcre2", TRUE)
    /\ LastCall("pcre2", TRUE) < LastCall("fixed_strings", TRUE)
    /\ Literal

\* ---------------------------------------------------------------- C19
\* the matching lines collected so far, over all files
TotalLines == SumTo([i \in Ids |-> Len(buf[i])], NumPaths)

\* every match of the file starts no earlier than the last line of the
\* match before it
InFileOrder(ms) ==
    \A j \in 1..(Len(ms) - 1) : ms[j + 1].line >= ms[j].line + ms[j].nlines - 1

NonDecreasing(b) == \A j \in 1..(Len(b) - 1) : b[j] <= b[j + 1]

\* the sink of unit i accepts its next match in this step
Accepts(i) == acc'[i] # acc[i]

NothingOpened ==
    \A i \in Ids :
        /\ upc[i] \notin {"open", "matching"}
        /\ acc[i] = 0
        /\ ures[i].err.kind \notin {"open", "search"}

\* C20 as stated, its part on max_count = 0: no file is opened, nothing is
\* printed and grep returns Ok(false), whatever the walk and the pattern are.
C20_Original ==
    (mode = "grep" /\ printer_ok /\ max_count = 0) =>
        /\ NothingOpened
        /\ printed = <<>>
        /\ Returned => result = Ok(FALSE)

\* C20: the budget is consulted before the file is opened: a unit that
\* starts its search with the counter at zero goes on to aggregation with an
\* empty list, without opening its file, and a unit with an empty list
\* returns Ok(false) and prints nothing; with max_count = 0 no file is
\* opened, nothing is printed and, when the walk reports no error and the
\* matcher is built, grep returns Ok(false); the initial budget is always the
\* counter plus the accepted matches, and the counter is never below zero.
C20_BudgetFirst ==
    /\ [][\A i \in Ids :
            /\ (upc[i] = "search" /\ count = 0 /\ upc'[i] # upc[i]) =>
                  /\ upc'[i] = "searched"
                  /\ buf'[i] = <<>>
                  /\ ures'[i] = NoResult
                  /\ count' = 0
            /\ (upc[i] = "searched" /\ buf[i] = <<>> /\ upc'[i] # upc[i]) =>
                  /\ ures'[i] = Ok(FALSE)
                  /\ printed' = printed]_vars
    /\ []((mode = "grep" /\ printer_ok /\ max_count = 0) =>
            /\ NothingOpened
            /\ printed = <<>>
            /\ (Returned /\ ~FailedBeforeUnits) => result = Ok(FALSE))
    /\ [](count # None => (count >= 0 /\ max_count = count + TotalAccepted))

\* a file that cannot be opened is skipped without an error once another
\* file has used up the budget
C20_Witness ==
    /\ max_count > 0
    /\ count = 0
    /\ \E i \in paths :
          /\ entries[i].fail = "open"
          /\ upc[i] = "done"
          /\ ures[i] = Ok(FALSE)

\* ---------------------------------------------------------------- C21
\* the two pairs of setters that exclude each other
ExclusivePairs ==
    {<<"case_insensitive", "smart_case">>, <<"smart_case", "case_insensitive">>,
     <<"word_regexp", "line_regexp">>, <<"line_regexp", "word_regexp">>}

\* the field of the Config a setter writes
Flag(c, setter) ==
    CASE setter = "case_insensitive" -> c.case_insensitive
      [] setter = "smart_case" -> c.smart_case
      [] setter = "word_regexp" -> c.word_regexp
      [] setter = "line_regexp" -> c.line_regexp

\* C21: after any sequence of setter calls on a default Config,
\* case_insensitive and smart_case are never both true and word_regexp and
\* line_regexp are never both true; within each pair the setter most recently
\* called with true wins: the flag of the other one is false, and its own flag
\* is true unless it was itself called with false since; a single setter call
\* with false never changes the other flag of its pair.
C21_Exclusive ==
    /\ [](/\ ~(config.case_insensitive /\ config.smart_case)
          /\ ~(config.word_regexp /\ config.line_regexp))
    /\ [](\A p \in ExclusivePairs :
            LastCall(p[1], TRUE) > LastCall(p[2], TRUE) =>
                /\ ~Flag(config, p[2])
                /\ Flag(config, p[1])
                      <=> LastCall(p[1], FALSE) < LastCall(p[1], TRUE))
    /\ [][\A p \in ExclusivePairs :
            (/\ Len(calls') = Len(calls) + 1
             /\ calls'[Len(calls')] = <<p[1], FALSE>>) =>
                Flag(config', p[2]) = Flag(config, p[2])]_vars

\* app() given both --ignore-case and --smart-case, --word-regexp and
\* --line-regexp: the later setter of each pair has won
C21_Witness ==
    /\ Len(calls) = 6
    /\ calls[1] = <<"case_insensitive", TRUE>>
    /\ calls[2] = <<"smart_case", TRUE>>
    /\ calls[5] = <<"word_regexp", TRUE>>
    /\ calls[6] = <<"line_regexp", TRUE>>
    /\ config.smart_case /\ ~config.case_insensitive
    /\ config.line_regexp /\ ~config.word_regexp

====
